---- MODULE Spec2Model ----
(***************************************************************************)
(* Fee suggestion engine of services/wallet/suggest_fees.go.               *)
(*                                                                         *)
(* One invocation of Service.SuggestFees is a state machine whose steps    *)
(* are the RPC round trips to eth_feeHistory and the pure computation      *)
(* between them.  The source (the RPC backend) is the environment: every   *)
(* reply is chosen nondeterministically from bounded sets.                 *)
(*                                                                         *)
(* Number representation.  TLC integers have 32 bits, so                   *)
(*  - wei amounts that come from the source are counted in gwei;           *)
(*  - a big.Float / float64 amount x is the integer x * Unit (fixed point, *)
(*    exact for every product and quotient the code forms);                *)
(*  - the float64 weights of the projector are fixed point with            *)
(*    WeightScale, the sampling curve values with CurveScale;              *)
(*  - the 64-bit words and the 53-bit mantissa of the conversions          *)
(*    Uint64(), Int64() and float64() are scaled to WordBits and MantBits. *)
(***************************************************************************)
EXTENDS Integers, Sequences, FiniteSets

\* ------------------------------------------------------------ bounds
\* Longest gasUsedRatio of the histories with varied base fees.
MaxN == 2
\* Longest gasUsedRatio of the histories with flat base fees.
MaxRatios == 9
\* Width of the machine word that stands for uint64 / int64.
WordBits == 8
\* Width of the mantissa that stands for the 53 bits of a float64.
MantBits == 6
\* Length of the working arrays the projector walks with every sorting order.
MaxWalk == 6

\* pingPeer goroutines alive at once, and the failures a counter may reach.
MaxGoroutines == 3
MaxFails == 4

\* ------------------------------------------------------------ program constants
needBlocksInit == 5
maxTimeFactor == 15
\* 5e9 wei, in gwei.
FallbackTip == 5
\* The percentile of the inner fetches.
RewardPercentile == 10
\* Block count of the outer fetch.
OuterBlockCount == 100
\* Pending block augmentation 9/8.
AugmentNum == 9
AugmentDen == 8
\* 1 / extraTipRatio (extraTipRatio = 0.25).
ExtraTipDiv == 4
\* gasUsedRatio thresholds 0.1 and 0.9, in hundredths.
RatioLow == 10
RatioHigh == 90

\* wakunode2.go: the failed pings a peer is allowed before it is disconnected.
maxAllowedPingFailures == 2

\* ------------------------------------------------------------ fixed point
WeightScale == 10^4
CurveScale == 10^3
\* One gwei as a big.Float amount: a multiple of AugmentDen, ExtraTipDiv and
\* CurveScale, so that *9/8, *0.25 and the curve products are exact.
Unit == AugmentDen * ExtraTipDiv * CurveScale

TwoPow(n) == 2^n

\* (*big.Int).Uint64(): the low 64 bits.
Uint64(x) == x % TwoPow(WordBits)

\* (*big.Int).Int64(): the low 64 bits as a two's complement number.
Int64(x) ==
  LET m == x % TwoPow(WordBits)
  IN IF m >= TwoPow(WordBits - 1) THEN m - TwoPow(WordBits) ELSE m

RECURSIVE BitLen(_)
BitLen(n) == IF n = 0 THEN 0 ELSE 1 + BitLen(n \div 2)

\* float64(uint64): round to nearest, ties to even, at MantBits significant bits.
Float64(n) ==
  LET drop == BitLen(n) - MantBits
  IN IF drop <= 0 THEN n
     ELSE LET q == TwoPow(drop)
              lo == n \div q
              rem == n % q
              half == q \div 2
              up == rem > half \/ (rem = half /\ lo % 2 = 1)
          IN (IF up THEN lo + 1 ELSE lo) * q

\* big.NewFloat(x) for a whole number of gwei.
NewFloat(x) == x * Unit

\* math.Exp(-1/t) for t = 1..15, times WeightScale.
ExpNegInv ==
  <<3679, 6065, 7165, 7788, 8187, 8465, 8669, 8825,
    8948, 9048, 9131, 9200, 9260, 9311, 9355>>

\* math.Exp(-k/t), times WeightScale, for a whole k >= 0.
RECURSIVE ExpNeg(_, _)
ExpNeg(k, t) ==
  IF k = 0 THEN WeightScale
  ELSE (ExpNeg(k - 1, t) * ExpNegInv[t] + WeightScale \div 2) \div WeightScale

\* samplingCurve is a helper function for the base fee percentile range
\* calculation.  (1 - cos(2 pi u)) / 2 = sin(pi u)^2 with
\* u = (sumWeight - sampleMin) / (sampleMax - sampleMin); the sine is
\* Bhaskara's 16 u (1-u) / (5 - 4 u (1-u)), exact at u = 0, 1/2, 1.
samplingCurve(sumWeight) ==
  LET sampleMin == WeightScale \div 10
      sampleMax == (3 * WeightScale) \div 10
  IN IF sumWeight <= sampleMin THEN 0
     ELSE IF sumWeight >= sampleMax THEN CurveScale
     ELSE LET p == (sumWeight - sampleMin) * (sampleMax - sumWeight)
              w == (sampleMax - sampleMin) * (sampleMax - sampleMin)
              sine == (4 * p) \div ((5 * w - 4 * p) \div (4 * CurveScale))
          IN (sine * sine) \div CurveScale

\* ------------------------------------------------------------ suggest_fees.go

\* maxBlockCount without its lower threshold: only a full block ends a run.
RECURSIVE maxBlockCount_NoLowerBound(_, _, _)
maxBlockCount_NoLowerBound(gasUsedRatio, ptr, needBlocks) ==
  IF needBlocks > 0 /\ ptr >= 0
  THEN IF gasUsedRatio[ptr + 1] > RatioHigh
       THEN 0
       ELSE 1 + maxBlockCount_NoLowerBound(gasUsedRatio, ptr - 1, needBlocks - 1)
  ELSE 0

\* maxBlockCount without the cap of needBlocks: the whole run is counted.
RECURSIVE maxBlockCount_Uncapped(_, _, _)
maxBlockCount_Uncapped(gasUsedRatio, ptr, needBlocks) ==
  IF ptr >= 0
  THEN IF gasUsedRatio[ptr + 1] < RatioLow \/ gasUsedRatio[ptr + 1] > RatioHigh
       THEN 0
       ELSE 1 + maxBlockCount_Uncapped(gasUsedRatio, ptr - 1, needBlocks)
  ELSE 0

\* maxBlockCount returns the number of consecutive blocks suitable for tip
\* suggestion (gasUsedRatio between 0.1 and 0.9).  ptr is 0-based as in the
\* code; gasUsedRatio[ptr] of the code is gasUsedRatio[ptr + 1] here.
RECURSIVE maxBlockCount(_, _, _)
maxBlockCount(gasUsedRatio, ptr, needBlocks) ==
  IF needBlocks > 0 /\ ptr >= 0
  THEN IF gasUsedRatio[ptr + 1] < RatioLow \/ gasUsedRatio[ptr + 1] > RatioHigh
       THEN 0
       ELSE 1 + maxBlockCount(gasUsedRatio, ptr - 1, needBlocks - 1)
  ELSE 0

\* pendingWeight of suggestBaseFee, times WeightScale.
pendingWeightOf(len, timeFactor) ==
  ((WeightScale - ExpNeg(1, timeFactor)) * WeightScale)
    \div (WeightScale - ExpNeg(len, timeFactor))

\* baseFeeWalk that weighs each entry with the curve value itself, not with
\* its increase over samplingCurveLast.
RECURSIVE baseFeeWalk_Cumulative(_, _, _, _, _, _, _, _)
baseFeeWalk_Cumulative(baseFee, order, timeFactor, pendingWeight, i, sumWeight, samplingCurveLast, result) ==
  IF i > Len(order) THEN result
  ELSE
    LET age == Len(baseFee) - order[i]
        sumWeight2 == sumWeight
          + (pendingWeight * ExpNeg(age, timeFactor)) \div WeightScale
        samplingCurveValue == samplingCurve(sumWeight2)
        multipliedSampling == samplingCurveValue * (baseFee[order[i]] \div CurveScale)
        result2 == result + multipliedSampling
    IN IF samplingCurveValue >= CurveScale THEN result2
       ELSE baseFeeWalk_Cumulative(baseFee, order, timeFactor, pendingWeight, i + 1,
                                   sumWeight2, samplingCurveValue, result2)

\* The loop of suggestBaseFee from position i (1-based) of order on.
RECURSIVE baseFeeWalk(_, _, _, _, _, _, _, _)
baseFeeWalk(baseFee, order, timeFactor, pendingWeight, i, sumWeight, samplingCurveLast, result) ==
  IF i > Len(order) THEN result
  ELSE
    LET age == Len(baseFee) - order[i]
        sumWeight2 == sumWeight
          + (pendingWeight * ExpNeg(age, timeFactor)) \div WeightScale
        samplingCurveValue == samplingCurve(sumWeight2)
        multipliedSampling ==
          (samplingCurveValue - samplingCurveLast) * (baseFee[order[i]] \div CurveScale)
        result2 == result + multipliedSampling
    IN IF samplingCurveValue >= CurveScale THEN result2
       ELSE baseFeeWalk(baseFee, order, timeFactor, pendingWeight, i + 1,
                        sumWeight2, samplingCurveValue, result2)

\* suggestBaseFee that returns the first entry for a time factor near 0.
suggestBaseFee_First(baseFee, order, timeFactor) ==
  IF timeFactor < 1 THEN baseFee[1]
  ELSE baseFeeWalk(baseFee, order, timeFactor,
                   pendingWeightOf(Len(baseFee), timeFactor), 1, 0, 0, 0)

\* suggestBaseFee: order holds 1-based positions of baseFee.
suggestBaseFee(baseFee, order, timeFactor) ==
  IF timeFactor < 1 THEN baseFee[Len(baseFee)]
  ELSE baseFeeWalk(baseFee, order, timeFactor,
                   pendingWeightOf(Len(baseFee), timeFactor), 1, 0, 0, 0)

\* One pass of a stable insertion: x goes after every element not greater.
RECURSIVE InsertBy(_, _, _)
InsertBy(sorted, x, key) ==
  IF sorted = <<>> THEN <<x>>
  ELSE IF key[x] < key[Head(sorted)] THEN <<x>> \o sorted
  ELSE <<Head(sorted)>> \o InsertBy(Tail(sorted), x, key)

\* sort.SliceStable(order, baseFees[order[i]] < baseFees[order[j]]).
RECURSIVE SortOrder(_, _)
SortOrder(n, key) ==
  IF n = 0 THEN <<>> ELSE InsertBy(SortOrder(n - 1, key), n, key)

RECURSIVE InsertAsc(_, _)
InsertAsc(sorted, x) ==
  IF sorted = <<>> THEN <<x>>
  ELSE IF x < Head(sorted) THEN <<x>> \o sorted
  ELSE <<Head(sorted)>> \o InsertAsc(Tail(sorted), x)

\* sort.Slice(rewards, rewards[i] < rewards[j]).
RECURSIVE SortAsc(_)
SortAsc(s) ==
  IF s = <<>> THEN <<>> ELSE InsertAsc(SortAsc(SubSeq(s, 1, Len(s) - 1)), s[Len(s)])

\* The lower median instead: index floor((n - 1) / 2).
MedianIndex_Lower(n) == (n - 1) \div 2

\* The index int(math.Floor(float64(len(rewards))/2)), 0-based.
MedianIndex(n) == n \div 2

\* tipOf with the 0 of the error path in place of the fallback.
tipOf_ZeroFallback(sorted) ==
  IF Len(sorted) = 0 THEN 0
  ELSE sorted[(Len(sorted) \div 2) + 1]

\* Lines 124-132 on the rewards as sort.Slice left them: fallback or median.
tipOf(sorted) ==
  IF Len(sorted) = 0 THEN FallbackTip
  ELSE sorted[MedianIndex(Len(sorted)) + 1]

\* Lines 33-38: baseFees[i] = float64(BaseFee[i].Uint64()).
convertBaseFees(BaseFee) ==
  [i \in 1..Len(BaseFee) |-> NewFloat(Float64(Uint64(BaseFee[i])))]

\* Lines 43-45: the last element times 9, divided by 8.
augmentLast(baseFees) ==
  [baseFees EXCEPT ![Len(baseFees)] = (@ * AugmentNum) \div AugmentDen]

\* The walk of lines 47-51 upward, from the oldest block to the newest: a
\* full block takes the base fee its successor had before the walk.
RECURSIVE propagateFull_Upward(_, _, _)
propagateFull_Upward(baseFees, GasUsedRatio, i) ==
  IF i < 0 THEN baseFees
  ELSE LET j == Len(GasUsedRatio) - 1 - i
       IN propagateFull_Upward(
            IF GasUsedRatio[j + 1] > RatioHigh
            THEN [baseFees EXCEPT ![j + 1] = baseFees[j + 2]]
            ELSE baseFees,
            GasUsedRatio, i - 1)

\* Lines 47-51, for i (0-based) down to 0: a full block takes the base fee
\* of the next one.
RECURSIVE propagateFull(_, _, _)
propagateFull(baseFees, GasUsedRatio, i) ==
  IF i < 0 THEN baseFees
  ELSE propagateFull(
         IF GasUsedRatio[i + 1] > RatioHigh
         THEN [baseFees EXCEPT ![i + 1] = baseFees[i + 2]]
         ELSE baseFees,
         GasUsedRatio, i - 1)

\* Lines 43 and 49 index baseFees: the run-time panics (index out of range)
\* when BaseFee is empty or a full block has no successor in baseFees.
prepareCrashes(h) ==
  \/ Len(h.BaseFee) = 0
  \/ \E i \in 1..Len(h.GasUsedRatio) :
       h.GasUsedRatio[i] > RatioHigh /\ i + 1 > Len(h.BaseFee)

\* Extra tip of half the dip instead of a quarter.
extraTip_Half(maxBaseFee, bf) == (maxBaseFee - bf) \div 2

\* Extra tip offered in a base fee dip: (maxBaseFee - bf) * extraTipRatio.
extraTip(maxBaseFee, bf) == (maxBaseFee - bf) \div ExtraTipDiv

\* ladderEntry that keeps the dipped base fee: bf is not raised to maxBaseFee.
ladderEntry_KeepsDip(bf, t, maxBaseFee) ==
  IF bf > maxBaseFee
  THEN [MaxFeePerGas |-> bf + t, MaxPriorityFeePerGas |-> t]
  ELSE [MaxFeePerGas |-> bf + (t + extraTip(maxBaseFee, bf)),
        MaxPriorityFeePerGas |-> t + extraTip(maxBaseFee, bf)]

\* ladderEntry whose maxFeePerGas is the base fee alone, the tip not added.
ladderEntry_NoTip(bf, t, maxBaseFee) ==
  IF bf > maxBaseFee
  THEN [MaxFeePerGas |-> bf, MaxPriorityFeePerGas |-> t]
  ELSE [MaxFeePerGas |-> maxBaseFee,
        MaxPriorityFeePerGas |-> t + extraTip(maxBaseFee, bf)]

\* One pass of the loop of lines 75-95 for timeFactor, given maxBaseFee.
ladderEntry(bf, t, maxBaseFee) ==
  IF bf > maxBaseFee
  THEN [MaxFeePerGas |-> bf + t, MaxPriorityFeePerGas |-> t]
  ELSE [MaxFeePerGas |-> maxBaseFee + (t + extraTip(maxBaseFee, bf)),
        MaxPriorityFeePerGas |-> t + extraTip(maxBaseFee, bf)]

\* Lines 67-97: the ladder, built from timeFactor down to 0.  response[t + 1]
\* is the code's response[t].
RECURSIVE ladderLoop(_, _, _, _, _, _)
ladderLoop(baseFees, order, tip, timeFactor, maxBaseFee, response) ==
  IF timeFactor < 0 THEN response
  ELSE
    LET bf == suggestBaseFee(baseFees, order, timeFactor)
        t == NewFloat(Int64(tip))
    IN ladderLoop(baseFees, order, tip, timeFactor - 1,
                  IF bf > maxBaseFee THEN bf ELSE maxBaseFee,
                  [response EXCEPT ![timeFactor + 1] = ladderEntry(bf, t, maxBaseFee)])

NoEntry == [MaxFeePerGas |-> 0, MaxPriorityFeePerGas |-> 0]

buildLadder(baseFees, order, tip) ==
  ladderLoop(baseFees, order, tip, maxTimeFactor, 0,
             [i \in 1..(maxTimeFactor + 1) |-> NoEntry])

\* ------------------------------------------------------------ the source

\* Sequences over S of length lo..hi.
SeqsOf(S, lo, hi) == UNION {[1..n -> S] : n \in lo..hi}

\* Base fees of the source, in gwei.  BigFee does not fit the word and,
\* once cut to it, does not fit the mantissa.
BigFee == TwoPow(WordBits) + TwoPow(MantBits) + 1
FeeDom == {2, BigFee}

\* Rewards of the source, in gwei.  BigReward does not fit int64.
BigReward == TwoPow(WordBits - 1)
RewardDom == {1, 5, BigReward}

\* gasUsedRatio in hundredths: below the band, its two ends, above it.
ShortRatioDom == {5, RatioLow, RatioHigh, 95}
LongRatioDom == {5, 50}


Errors == {"TransportError", "UpstreamError"}

\* Replies to the outer fetch: histories of every shape with varied base
\* fees, and well-formed longer histories with flat base fees.
ShortHistories ==
  [OldestBlock : {9},
   BaseFee : SeqsOf(FeeDom, 0, MaxN + 1),
   GasUsedRatio : SeqsOf(ShortRatioDom, 0, MaxN)]

LongHistories ==
  UNION {[OldestBlock : {250},
          BaseFee : {[i \in 1..(n + 1) |-> 8]},
          GasUsedRatio : [1..n -> LongRatioDom]] : n \in (MaxN + 1)..MaxRatios}

\* Well-formed histories of four base fees, low and high in every
\* arrangement: the projections of the time factors differ on them.
DipHistories ==
  [OldestBlock : {9},
   BaseFee : [1..4 -> {2, 80}],
   GasUsedRatio : {<<50, 50, 50>>, <<50, 95, 50>>}]

Histories == ShortHistories \cup LongHistories \cup DipHistories

\* The rewards the source may report for the block at 0-based position b of
\* history h: any of RewardDom in the short histories, one that the position
\* fixes in the long ones.
LongRewards == <<7, 1, 5, 3>>
RewardsOfBlock(h, b) ==
  IF Len(h.GasUsedRatio) <= MaxN THEN RewardDom
  ELSE {LongRewards[(b % Len(LongRewards)) + 1]}

\* The reward rows the source may report for that block: as wide as the
\* percentile vector, or empty.
RowsOfBlock(h, b) == {<<>>} \cup {<<r>> : r \in RewardsOfBlock(h, b)}

\* The reward matrices of n rows for the blocks of h from position first on.
RECURSIVE MatricesFrom(_, _, _)
MatricesFrom(h, first, n) ==
  IF n = 0 THEN {<<>>}
  ELSE {Append(m, row) : m \in MatricesFrom(h, first, n - 1),
                         row \in RowsOfBlock(h, first + n - 1)}

\* Reward matrices of a reply to an inner fetch for the blockCount blocks of
\* h that end at position ptr: up to blockCount rows, oldest block first.
RewardMatrices(h, ptr, blockCount) ==
  UNION {MatricesFrom(h, ptr - blockCount + 1, n) : n \in 0..blockCount}

\* fmt.Sprintf("0x%x", n)
HexDigit == <<"0", "1", "2", "3", "4", "5", "6", "7",
              "8", "9", "a", "b", "c", "d", "e", "f">>
RECURSIVE hexDigits(_)
hexDigits(n) ==
  IF n < 16 THEN <<HexDigit[n + 1]>>
  ELSE Append(hexDigits(n \div 16), HexDigit[(n % 16) + 1])
Sprintf0x(n) == <<"0x">> \o hexDigits(n)

\* ------------------------------------------------------------ state

VARIABLES
  pc,          \* where the invocation stands
  result,      \* the FeeHistoryResult of the outer fetch
  baseFees,    \* the working array
  order,       \* the permutation sorting baseFees
  ptr,         \* suggestTip: 0-based position in gasUsedRatio
  needBlocks,  \* suggestTip: blocks still wanted
  rewards,     \* suggestTip: rewards collected
  tip,         \* what suggestTip returned
  response,    \* the ladder returned, <<>> for nil
  err,         \* the error returned, "nil" for nil
  calls,       \* the rpcClient.Call requests so far, each with the reward
               \* rows and the error the source answered
  args,        \* the operands of a function applied on its own
  value,       \* what that function returned
  keepAliveMutex,  \* WakuNode: TRUE while the mutex is held
  keepAliveFails,  \* WakuNode: the failure counter of each peer
  goroutines,      \* the pingPeer goroutines: position, peer, ping result
  connectedness,   \* host.Network(): TRUE for a connected peer
  peerstore,       \* host.Peerstore(): every peer ever connected to
  quit             \* TRUE once the quit channel is closed

\* The operands and the value of a function applied on its own; SuggestFees
\* leaves them alone.
pureVars == <<args, value>>

\* The keep-alive of the Waku node; SuggestFees leaves it alone.
wakuVars == <<keepAliveMutex, keepAliveFails, goroutines, connectedness,
              peerstore, quit>>

vars == <<pc, result, baseFees, order, ptr, needBlocks, rewards, tip,
          response, err, calls, args, value, keepAliveMutex, keepAliveFails,
          goroutines, connectedness, peerstore, quit>>

NoResult == [OldestBlock |-> 0, BaseFee |-> <<>>, GasUsedRatio |-> <<>>]
NoArgs == [fn |-> "none"]
NoValue == <<>>

\* The peers of the network, and the host's own ID.
PeerIDs == {"peerA", "peerB"}
hostID == "host"

\* A goroutine slot with no pingPeer running in it.
NoGoroutine == [pc |-> "none", peer |-> hostID, res |-> "none", closed |-> FALSE]

\* The node as New leaves it: an empty failure map (a missing key reads 0),
\* the mutex free, the quit channel open, no peer met yet.
New ==
  /\ keepAliveMutex = FALSE
  /\ keepAliveFails = [p \in PeerIDs |-> 0]
  /\ goroutines = [g \in 1..MaxGoroutines |-> NoGoroutine]
  /\ connectedness = [p \in PeerIDs |-> FALSE]
  /\ peerstore = {hostID}
  /\ quit = FALSE

Init ==
  /\ pc = "start"
  /\ result = NoResult
  /\ baseFees = <<>>
  /\ order = <<>>
  /\ ptr = 0
  /\ needBlocks = 0
  /\ rewards = <<>>
  /\ tip = 0
  /\ response = <<>>
  /\ err = "nil"
  /\ calls = <<>>
  /\ args = NoArgs
  /\ value = NoValue
  /\ New

OuterCall == [blockCount |-> OuterBlockCount, newest |-> <<"latest">>,
              percentiles |-> <<>>, rows |-> 0, reward |-> <<>>,
              error |-> "nil"]

InnerCall(blockCount, block, reward, error) ==
  [blockCount |-> blockCount, newest |-> Sprintf0x(block),
   percentiles |-> <<RewardPercentile>>, rows |-> Len(reward),
   reward |-> reward, error |-> error]

\* The outer fetch fails and the error is not checked: the empty result is
\* used.
OuterFetchFail_Ignored ==
  /\ pc = "start"
  /\ \E e \in Errors :
       calls' = Append(calls, [OuterCall EXCEPT !.error = e])
  /\ pc' = "prepare"
  /\ UNCHANGED <<result, baseFees, order, ptr, needBlocks, rewards, tip, response, err>>
  /\ UNCHANGED <<pureVars, wakuVars>>

\* Lines 27-31, the outer fetch fails: return nil, err.
OuterFetchFail ==
  /\ pc = "start"
  /\ \E e \in Errors :
       /\ err' = e
       /\ calls' = Append(calls, [OuterCall EXCEPT !.error = e])
  /\ pc' = "returned"
  /\ UNCHANGED <<result, baseFees, order, ptr, needBlocks, rewards, tip, response>>
  /\ UNCHANGED <<pureVars, wakuVars>>

\* Lines 27-28, the outer fetch succeeds.
OuterFetch ==
  /\ pc = "start"
  /\ \E h \in Histories : result' = h
  /\ calls' = Append(calls, OuterCall)
  /\ pc' = "prepare"
  /\ UNCHANGED <<baseFees, order, ptr, needBlocks, rewards, tip, response, err>>
  /\ UNCHANGED <<pureVars, wakuVars>>

\* Lines 33-62 and 101-103: the working array, its order, and the entry of
\* suggestTip.  An index out of range ends the invocation in a panic.
Prepare ==
  /\ pc = "prepare"
  /\ IF prepareCrashes(result)
     THEN /\ pc' = "panic"
          /\ UNCHANGED <<baseFees, order, ptr, needBlocks>>
     ELSE LET B == propagateFull(augmentLast(convertBaseFees(result.BaseFee)),
                                 result.GasUsedRatio,
                                 Len(result.GasUsedRatio) - 1)
          IN /\ baseFees' = B
             /\ order' = SortOrder(Len(B), B)
             /\ ptr' = Len(result.GasUsedRatio) - 1
             /\ needBlocks' = needBlocksInit
             /\ pc' = "tip"
  /\ UNCHANGED <<result, rewards, tip, response, err, calls>>
  /\ UNCHANGED <<pureVars, wakuVars>>

loopGuard == needBlocks > 0 /\ ptr >= 0

blockCountNow == maxBlockCount(result.GasUsedRatio, ptr, needBlocks)

\* Lines 104-106 and 121: no suitable block at ptr, step over it.
TipSkip ==
  /\ pc = "tip" /\ loopGuard
  /\ blockCountNow = 0
  /\ ptr' = ptr - (blockCountNow + 1)
  /\ UNCHANGED <<pc, result, baseFees, order, needBlocks, rewards, tip,
                 response, err, calls>>
  /\ UNCHANGED <<pureVars, wakuVars>>

\* The inner fetch fails and the loop is left as for a short reply: the tip
\* comes from the rewards collected so far or the fallback.
TipFetchFail_FallsBack ==
  /\ pc = "tip" /\ loopGuard
  /\ blockCountNow > 0
  /\ \E e \in Errors :
       calls' = Append(calls, InnerCall(blockCountNow, result.OldestBlock + ptr, <<>>, e))
  /\ pc' = "tipEnd"
  /\ UNCHANGED <<result, baseFees, order, ptr, needBlocks, rewards, tip, response, err>>
  /\ UNCHANGED <<pureVars, wakuVars>>

\* Lines 107-111: the inner fetch fails; suggestTip returns 0 and the error,
\* SuggestFees returns nil and the error (lines 63-65).
TipFetchFail ==
  /\ pc = "tip" /\ loopGuard
  /\ blockCountNow > 0
  /\ \E e \in Errors :
       /\ err' = e
       /\ calls' = Append(calls, InnerCall(blockCountNow, result.OldestBlock + ptr, <<>>, e))
  /\ tip' = 0
  /\ pc' = "returned"
  /\ UNCHANGED <<result, baseFees, order, ptr, needBlocks, rewards, response>>
  /\ UNCHANGED <<pureVars, wakuVars>>

\* Lines 107-113: a reply with a reward row of no entry; Reward[i][0] panics.
TipFetchPanic ==
  /\ pc = "tip" /\ loopGuard
  /\ blockCountNow > 0
  /\ \E m \in RewardMatrices(result, ptr, blockCountNow) :
       /\ \E i \in 1..Len(m) : Len(m[i]) = 0
       /\ calls' = Append(calls,
                          InnerCall(blockCountNow, result.OldestBlock + ptr, m, "nil"))
  /\ pc' = "panic"
  /\ UNCHANGED <<result, baseFees, order, ptr, needBlocks, rewards, tip, response, err>>
  /\ UNCHANGED <<pureVars, wakuVars>>

\* TipFetch that steps over the blocks fetched only, not over the block that
\* ended the run: ptr -= blockCount.
TipFetch_NoGap ==
  /\ pc = "tip" /\ loopGuard
  /\ blockCountNow > 0
  /\ \E m \in RewardMatrices(result, ptr, blockCountNow) :
       /\ \A i \in 1..Len(m) : Len(m[i]) > 0
       /\ rewards' = rewards \o [i \in 1..Len(m) |-> m[i][1]]
       /\ calls' = Append(calls,
                          InnerCall(blockCountNow, result.OldestBlock + ptr, m, "nil"))
       /\ IF Len(m) < blockCountNow
          THEN /\ pc' = "tipEnd"
               /\ UNCHANGED <<ptr, needBlocks>>
          ELSE /\ needBlocks' = needBlocks - blockCountNow
               /\ ptr' = ptr - blockCountNow
               /\ pc' = "tip"
  /\ UNCHANGED <<result, baseFees, order, tip, response, err>>
  /\ UNCHANGED <<pureVars, wakuVars>>

\* TipFetch without the break of line 117: after a short reply the loop
\* goes on as after a full one.
TipFetch_NoBreak ==
  /\ pc = "tip" /\ loopGuard
  /\ blockCountNow > 0
  /\ \E m \in RewardMatrices(result, ptr, blockCountNow) :
       /\ \A i \in 1..Len(m) : Len(m[i]) > 0
       /\ rewards' = rewards \o [i \in 1..Len(m) |-> m[i][1]]
       /\ calls' = Append(calls,
                          InnerCall(blockCountNow, result.OldestBlock + ptr, m, "nil"))
       /\ needBlocks' = needBlocks - blockCountNow
       /\ ptr' = ptr - (blockCountNow + 1)
       /\ pc' = "tip"
  /\ UNCHANGED <<result, baseFees, order, tip, response, err>>
  /\ UNCHANGED <<pureVars, wakuVars>>

\* Lines 107-121: a reply whose rows all hold a reward.  A short reply ends
\* the loop.
TipFetch ==
  /\ pc = "tip" /\ loopGuard
  /\ blockCountNow > 0
  /\ \E m \in RewardMatrices(result, ptr, blockCountNow) :
       /\ \A i \in 1..Len(m) : Len(m[i]) > 0
       /\ rewards' = rewards \o [i \in 1..Len(m) |-> m[i][1]]
       /\ calls' = Append(calls,
                          InnerCall(blockCountNow, result.OldestBlock + ptr, m, "nil"))
       /\ IF Len(m) < blockCountNow
          THEN /\ pc' = "tipEnd"
               /\ UNCHANGED <<ptr, needBlocks>>
          ELSE /\ needBlocks' = needBlocks - blockCountNow
               /\ ptr' = ptr - (blockCountNow + 1)
               /\ pc' = "tip"
  /\ UNCHANGED <<result, baseFees, order, tip, response, err>>
  /\ UNCHANGED <<pureVars, wakuVars>>

\* Lines 124-132: suggestTip sorts the rewards in place and returns the
\* fallback or the median.
TipReturn ==
  /\ \/ pc = "tip" /\ ~loopGuard
     \/ pc = "tipEnd"
  /\ rewards' = SortAsc(rewards)
  /\ tip' = tipOf(rewards')
  /\ pc' = "ladder"
  /\ UNCHANGED <<result, baseFees, order, ptr, needBlocks, response, err, calls>>
  /\ UNCHANGED <<pureVars, wakuVars>>

\* Lines 67-97: the ladder is built and returned.
BuildLadder ==
  /\ pc = "ladder"
  /\ response' = buildLadder(baseFees, order, tip)
  /\ pc' = "returned"
  /\ UNCHANGED <<result, baseFees, order, ptr, needBlocks, rewards, tip, err, calls>>
  /\ UNCHANGED <<pureVars, wakuVars>>

Next ==
  \/ OuterFetchFail
  \/ OuterFetch
  \/ Prepare
  \/ TipSkip
  \/ TipFetchFail
  \/ TipFetchPanic
  \/ TipFetch
  \/ TipReturn
  \/ BuildLadder

Spec == Init /\ [][Next]_vars

\* A step of suggestTip: an iteration of its loop, with the call of line
\* 108 answered by a reply or an error, or the return after the loop.
TipStep == TipSkip \/ TipFetchFail \/ TipFetchPanic \/ TipFetch \/ TipReturn

\* suggestTip runs on: the next step is taken, every call returns.
FairSpec == Spec /\ WF_vars(TipStep)

\* ------------------------------------------------------------ functions on their own

\* The variables of an invocation.
runVars == <<pc, result, baseFees, order, ptr, needBlocks, rewards, tip,
             response, err, calls>>

\* Working arrays of n amounts.
PureFeeDom == {NewFloat(2), NewFloat(7), NewFloat(80)}
ArraysOf(n) == [1..n -> PureFeeDom]

\* Operands of suggestBaseFee: a working array, any sequence of its
\* positions as order (the empty one and the repeating ones too) and a
\* time factor.
ProjectorArgs ==
  UNION {[fn : {"suggestBaseFee"},
          baseFee : ArraysOf(n),
          order : SeqsOf(1..n, 0, n),
          timeFactor : {0, 1, maxTimeFactor}] : n \in 1..(MaxN + 1)}

\* Operands of the loop of lines 47-51: a working array and a gasUsedRatio
\* one shorter.
PropagateArgs ==
  UNION {[fn : {"propagateFull"},
          baseFee : ArraysOf(n + 1),
          GasUsedRatio : [1..n -> ShortRatioDom]] : n \in 0..MaxN}

\* Operands of samplingCurve: two weights from 0 to 0.4 in steps of 0.025.
CurveGrid == {(k * WeightScale) \div 40 : k \in 0..16}
CurveArgs == [fn : {"samplingCurve"}, lo : CurveGrid, hi : CurveGrid]

\* The permutations of the positions 1..MaxWalk.
RECURSIVE PermutationsOf(_)
PermutationsOf(S) ==
  IF S = {} THEN {<<>>}
  ELSE UNION {{Append(o, x) : o \in PermutationsOf(S \ {x})} : x \in S}
WalkPermutations == PermutationsOf(1..MaxWalk)

\* The orders that sort B ascending, ties in either order.
SortingOrders(B) ==
  {o \in WalkPermutations : \A i \in 1..(MaxWalk - 1) : B[o[i]] <= B[o[i + 1]]}

\* Operands of suggestBaseFee as SuggestFees passes them: a working array
\* of MaxWalk low and high amounts, an order that sorts it, a time factor
\* of at least 1.
SortedProjectorArgs ==
  UNION {[fn : {"suggestBaseFee"},
          baseFee : {B},
          order : SortingOrders(B),
          timeFactor : {1, maxTimeFactor}] :
           B \in [1..MaxWalk -> {NewFloat(2), NewFloat(80)}]}

PureArgs ==
  ProjectorArgs \cup SortedProjectorArgs \cup PropagateArgs \cup CurveArgs

PureInit ==
  /\ pc = "pure"
  /\ result = NoResult
  /\ baseFees = <<>>
  /\ order = <<>>
  /\ ptr = 0
  /\ needBlocks = 0
  /\ rewards = <<>>
  /\ tip = 0
  /\ response = <<>>
  /\ err = "nil"
  /\ calls = <<>>
  /\ args \in PureArgs
  /\ value = NoValue
  /\ New

\* suggestBaseFee(baseFee, order, timeFactor) is called.
ApplyProjector ==
  /\ args.fn = "suggestBaseFee" /\ value = NoValue
  /\ value' = <<suggestBaseFee(args.baseFee, args.order, args.timeFactor)>>
  /\ UNCHANGED args
  /\ UNCHANGED <<runVars, wakuVars>>

\* The loop of lines 47-51 runs, on the operand the first time and on its
\* own result the second.
ApplyPropagate ==
  /\ args.fn = "propagateFull" /\ Len(value) < 2
  /\ value' = Append(value,
                     propagateFull(IF value = NoValue THEN args.baseFee
                                   ELSE value[Len(value)],
                                   args.GasUsedRatio, Len(args.GasUsedRatio) - 1))
  /\ UNCHANGED args
  /\ UNCHANGED <<runVars, wakuVars>>

\* samplingCurve is called on both weights.
ApplyCurve ==
  /\ args.fn = "samplingCurve" /\ value = NoValue
  /\ value' = <<samplingCurve(args.lo), samplingCurve(args.hi)>>
  /\ UNCHANGED args
  /\ UNCHANGED <<runVars, wakuVars>>

PureNext ==
  \/ ApplyProjector
  \/ ApplyPropagate
  \/ ApplyCurve

PureSpec == PureInit /\ [][PureNext]_vars

\* ------------------------------------------------------------ Waku keep-alive

\* SuggestFees and the functions applied on their own stand still while the
\* keep-alive runs.
feeVars == <<runVars, pureVars>>

\* The peers a tick pings: everything in the peerstore but the host itself.
pinged == peerstore \ {hostID}

\* The slots free for a new goroutine.
idle == {g \in 1..MaxGoroutines : goroutines[g].pc = "none"}

\* A pingPeer goroutine as the go statement leaves it, about to take the mutex.
Spawned(p) == [pc |-> "lock", peer |-> p, res |-> "none", closed |-> FALSE]

\* startKeepAlive, the ticker case: one pingPeer goroutine is spawned for
\* every peer of the peerstore except the host.
Tick ==
  /\ ~quit
  /\ pinged # {}
  /\ Cardinality(idle) >= Cardinality(pinged)
  /\ LET slot == CHOOSE f \in [pinged -> idle] :
                    \A p, q \in pinged : p # q => f[p] # f[q]
     IN  goroutines' = [g \in 1..MaxGoroutines |->
                          IF \E p \in pinged : slot[p] = g
                          THEN Spawned(CHOOSE p \in pinged : slot[p] = g)
                          ELSE goroutines[g]]
  /\ UNCHANGED <<keepAliveMutex, keepAliveFails, connectedness, peerstore, quit>>
  /\ UNCHANGED feeVars

\* startKeepAlive, the quit case: the loop returns and ticks no more.
Quit ==
  /\ ~quit
  /\ quit' = TRUE
  /\ UNCHANGED <<keepAliveMutex, keepAliveFails, goroutines, connectedness, peerstore>>
  /\ UNCHANGED feeVars

\* pingPeer takes the mutex without waiting for it to be free.
Lock_NoMutex(g) ==
  /\ goroutines[g].pc = "lock"
  /\ keepAliveMutex' = TRUE
  /\ goroutines' = [goroutines EXCEPT ![g].pc = "ping"]
  /\ UNCHANGED <<keepAliveFails, connectedness, peerstore, quit>>
  /\ UNCHANGED feeVars

\* pingPeer line 625: w.keepAliveMutex.Lock() returns once the mutex is free.
Lock(g) ==
  /\ goroutines[g].pc = "lock"
  /\ ~keepAliveMutex
  /\ keepAliveMutex' = TRUE
  /\ goroutines' = [goroutines EXCEPT ![g].pc = "ping"]
  /\ UNCHANGED <<keepAliveFails, connectedness, peerstore, quit>>
  /\ UNCHANGED feeVars

\* pingPeer lines 635, 639-641: the ping is answered without an error, which
\* takes a connection to the peer; the counter is reset.
PingSuccess(g) ==
  /\ goroutines[g].pc = "ping"
  /\ connectedness[goroutines[g].peer]
  /\ keepAliveFails' = [keepAliveFails EXCEPT ![goroutines[g].peer] = 0]
  /\ goroutines' = [goroutines EXCEPT ![g].pc = "check", ![g].res = "ok"]
  /\ UNCHANGED <<keepAliveMutex, connectedness, peerstore, quit>>
  /\ UNCHANGED feeVars

\* pingPeer lines 635-638: the ping result carries an error; the counter
\* is incremented.
PingError(g) ==
  /\ goroutines[g].pc = "ping"
  /\ keepAliveFails[goroutines[g].peer] < MaxFails
  /\ keepAliveFails' = [keepAliveFails EXCEPT ![goroutines[g].peer] = @ + 1]
  /\ goroutines' = [goroutines EXCEPT ![g].pc = "check", ![g].res = "error"]
  /\ UNCHANGED <<keepAliveMutex, connectedness, peerstore, quit>>
  /\ UNCHANGED feeVars

\* pingPeer lines 642-644: the context is done before a result arrives; the
\* counter is incremented.
PingTimeout(g) ==
  /\ goroutines[g].pc = "ping"
  /\ keepAliveFails[goroutines[g].peer] < MaxFails
  /\ keepAliveFails' = [keepAliveFails EXCEPT ![goroutines[g].peer] = @ + 1]
  /\ goroutines' = [goroutines EXCEPT ![g].pc = "check", ![g].res = "timeout"]
  /\ UNCHANGED <<keepAliveMutex, connectedness, peerstore, quit>>
  /\ UNCHANGED feeVars

\* pingPeer line 647: the peer is to be disconnected when its counter is
\* above maxAllowedPingFailures and the network reports it connected.
Check(g) ==
  /\ goroutines[g].pc = "check"
  /\ goroutines' =
       [goroutines EXCEPT ![g].pc =
          IF /\ keepAliveFails[goroutines[g].peer] > maxAllowedPingFailures
             /\ connectedness[goroutines[g].peer]
          THEN "close" ELSE "return"]
  /\ UNCHANGED <<keepAliveMutex, keepAliveFails, connectedness, peerstore, quit>>
  /\ UNCHANGED feeVars

\* pingPeer lines 648-652: ClosePeer closes the connections to the peer, or
\* fails, which is only logged; the counter is reset either way.
ClosePeer(g) ==
  /\ goroutines[g].pc = "close"
  /\ \E closed \in BOOLEAN :
       connectedness' = IF closed
                        THEN [connectedness EXCEPT ![goroutines[g].peer] = FALSE]
                        ELSE connectedness
  /\ keepAliveFails' = [keepAliveFails EXCEPT ![goroutines[g].peer] = 0]
  /\ goroutines' = [goroutines EXCEPT ![g].pc = "return", ![g].closed = TRUE]
  /\ UNCHANGED <<keepAliveMutex, peerstore, quit>>
  /\ UNCHANGED feeVars

\* pingPeer returns: the deferred Unlock of line 626 frees the mutex and the
\* goroutine ends.
Unlock(g) ==
  /\ goroutines[g].pc = "return"
  /\ keepAliveMutex' = FALSE
  /\ goroutines' = [goroutines EXCEPT ![g] = NoGoroutine]
  /\ UNCHANGED <<keepAliveFails, connectedness, peerstore, quit>>
  /\ UNCHANGED feeVars

\* The network connects to a peer, which enters the peerstore for good.
Connect(p) ==
  /\ ~connectedness[p]
  /\ connectedness' = [connectedness EXCEPT ![p] = TRUE]
  /\ peerstore' = peerstore \cup {p}
  /\ UNCHANGED <<keepAliveMutex, keepAliveFails, goroutines, quit>>
  /\ UNCHANGED feeVars

\* The connection to a peer is lost.
Disconnect(p) ==
  /\ connectedness[p]
  /\ connectedness' = [connectedness EXCEPT ![p] = FALSE]
  /\ UNCHANGED <<keepAliveMutex, keepAliveFails, goroutines, peerstore, quit>>
  /\ UNCHANGED feeVars

WakuNext ==
  \/ Tick
  \/ Quit
  \/ \E g \in 1..MaxGoroutines : Lock(g)
  \/ \E g \in 1..MaxGoroutines : PingSuccess(g)
  \/ \E g \in 1..MaxGoroutines : PingError(g)
  \/ \E g \in 1..MaxGoroutines : PingTimeout(g)
  \/ \E g \in 1..MaxGoroutines : Check(g)
  \/ \E g \in 1..MaxGoroutines : ClosePeer(g)
  \/ \E g \in 1..MaxGoroutines : Unlock(g)
  \/ \E p \in PeerIDs : Connect(p)
  \/ \E p \in PeerIDs : Disconnect(p)

WakuSpec == Init /\ [][WakuNext]_vars

\* ------------------------------------------------------------ properties

\* fmt.Sprintf("0x%x", n) read back.
HexValue(d) == CHOOSE v \in 0..15 : HexDigit[v + 1] = d
RECURSIVE hexNumber(_)
hexNumber(ds) ==
  IF ds = <<>> THEN 0
  ELSE 16 * hexNumber(SubSeq(ds, 1, Len(ds) - 1)) + HexValue(ds[Len(ds)])
ParseHex(s) == hexNumber(Tail(s))

\* SuggestFees returned a ladder.
LadderReturned == pc = "returned" /\ response # <<>>

\* The shape invariant of a history.
WellShaped(h) == Len(h.BaseFee) = Len(h.GasUsedRatio) + 1

\* The time factors 0..14, as positions of response.
Steps == 1..maxTimeFactor

\* C1 as stated: for a valid history the ladder's maxFeePerGas is
\* non-increasing as the time factor grows from 0 to 15.
C1_MaxFeeNonIncreasing ==
  (LadderReturned /\ WellShaped(result)) =>
    \A t \in Steps : response[t].MaxFeePerGas >= response[t + 1].MaxFeePerGas

\* C1 amended: the base fee part of the ladder, maxFeePerGas minus
\* maxPriorityFeePerGas, is non-increasing as the time factor grows.
C1_BaseFeePartNonIncreasing ==
  (LadderReturned /\ WellShaped(result)) =>
    \A t \in Steps :
      response[t].MaxFeePerGas - response[t].MaxPriorityFeePerGas
        >= response[t + 1].MaxFeePerGas - response[t + 1].MaxPriorityFeePerGas

\* A ladder of a valid history whose maxFeePerGas rises from one time factor
\* to the next more patient one, where dip compensation added extra tip.
C1_Witness ==
  /\ LadderReturned /\ WellShaped(result)
  /\ \E t \in Steps :
       /\ response[t].MaxFeePerGas < response[t + 1].MaxFeePerGas
       /\ response[t + 1].MaxPriorityFeePerGas > response[t].MaxPriorityFeePerGas

\* C2: every entry of a returned ladder has maxFeePerGas >= maxPriorityFeePerGas.
C2_FeeDecomposition ==
  LadderReturned =>
    \A t \in 1..(maxTimeFactor + 1) :
      response[t].MaxFeePerGas >= response[t].MaxPriorityFeePerGas

\* A returned ladder with an entry that carries extra tip and one that does not.
C2_Witness ==
  /\ LadderReturned
  /\ \E t, u \in 1..(maxTimeFactor + 1) :
       /\ response[t].MaxPriorityFeePerGas > NewFloat(tip)
       /\ response[u].MaxPriorityFeePerGas = NewFloat(tip)
       /\ response[u].MaxFeePerGas > response[u].MaxPriorityFeePerGas

\* C3 as stated: for a valid history (non-negative base fees and rewards)
\* both fields of every ladder entry are >= 0.
C3_NonNegative ==
  (LadderReturned /\ WellShaped(result)) =>
    \A t \in 1..(maxTimeFactor + 1) :
      /\ response[t].MaxFeePerGas >= 0
      /\ response[t].MaxPriorityFeePerGas >= 0
\* A ladder of a valid history with a negative maxPriorityFeePerGas.
C3_NegativeTip ==
  /\ LadderReturned /\ WellShaped(result)
  /\ \E t \in 1..(maxTimeFactor + 1) : response[t].MaxPriorityFeePerGas < 0

\* C4: when the outer fetch fails, SuggestFees returns no ladder and exactly
\* the error of the source, and makes no inner fetch.
C4_OuterFailurePropagates ==
  (Len(calls) >= 1 /\ calls[1].error # "nil") =>
    /\ pc = "returned"
    /\ response = <<>>
    /\ err = calls[1].error
    /\ Len(calls) = 1

\* The outer fetch has failed.
C4_Witness ==
  /\ Len(calls) = 1 /\ calls[1].error \in Errors
  /\ calls[1].newest = <<"latest">>
  /\ pc = "returned"

\* C5: when an inner fetch fails, the tip estimator returns the error with a
\* tip of 0, no further fetch is made, and SuggestFees returns that error and
\* no ladder.
C5_InnerFailurePropagates ==
  \A i \in 2..Len(calls) :
    calls[i].error # "nil" =>
      /\ i = Len(calls)
      /\ pc = "returned"
      /\ tip = 0
      /\ err = calls[i].error
      /\ response = <<>>

\* An inner fetch failed after an earlier one had collected rewards.
C5_Witness ==
  /\ Len(calls) >= 3
  /\ calls[Len(calls)].error \in Errors
  /\ rewards # <<>>
  /\ pc = "returned"

\* A history that breaks the shape invariant.
Malformed(h) == ~WellShaped(h)

\* C6 as stated: a malformed history, or a reward row narrower than the
\* percentile vector, is answered with an error and no ladder, never with a
\* crash.
C6_MalformedRejected ==
  /\ pc # "panic"
  /\ (pc = "returned" /\ Len(calls) >= 1 /\ calls[1].error = "nil"
        /\ Malformed(result))
       => (response = <<>> /\ err # "nil")

\* The number of samples below v, and not above v.
CountBelow(s, v) == Cardinality({i \in 1..Len(s) : s[i] < v})
CountUpTo(s, v) == Cardinality({i \in 1..Len(s) : s[i] <= v})

\* v is the element at 0-based index k of s sorted ascending.
IsAtSortedIndex(s, v, k) ==
  /\ \E i \in 1..Len(s) : s[i] = v
  /\ CountBelow(s, v) <= k
  /\ CountUpTo(s, v) > k

\* The tip estimator has returned without error.
TipReturned == pc = "ladder"

\* C7: with an empty sample set the tip estimator returns 5 gwei
\* (5 * 10^9 wei); with a non-empty one it returns 5 gwei only when that is
\* the median sample.
C7_FallbackTip ==
  TipReturned =>
    /\ rewards = <<>> => tip = 5
    /\ (rewards # <<>> /\ tip = 5) => IsAtSortedIndex(rewards, 5, Len(rewards) \div 2)
    /\ rewards # <<>> => \E i \in 1..Len(rewards) : rewards[i] = tip

\* The estimator fell back after a fetch that returned no reward row.
C7_Witness ==
  /\ TipReturned /\ rewards = <<>> /\ tip = 5
  /\ Len(calls) >= 2 /\ calls[Len(calls)].rows = 0

\* C8: the tip is the element at index floor(n/2) of the n samples sorted
\* ascending, whatever the order in which they were fetched.
C8_MedianOfSamples ==
  [][(pc \in {"tip", "tipEnd"} /\ pc' = "ladder" /\ rewards # <<>>)
       => IsAtSortedIndex(rewards, tip', Len(rewards) \div 2)]_vars

\* The samples 1, 3, 5, 7 gave the tip 5.
C8_Witness ==
  /\ TipReturned
  /\ rewards = <<1, 3, 5, 7>>
  /\ tip = 5

\* The 1-based positions in gasUsedRatio of the blocks inner fetch i covers.
Covered(i) ==
  LET newestPos == ParseHex(calls[i].newest) - result.OldestBlock + 1
  IN (newestPos - calls[i].blockCount + 1)..newestPos

InnerCalls == 2..Len(calls)

\* C9 as stated: every block an inner fetch covers has a gas-used ratio
\* strictly between 0.1 and 0.9.
C9_StrictBand ==
  \A i \in InnerCalls : \A b \in Covered(i) :
    /\ b \in 1..Len(result.GasUsedRatio)
    /\ result.GasUsedRatio[b] > RatioLow
    /\ result.GasUsedRatio[b] < RatioHigh

\* The blocks still wanted when inner fetch i was made.
RECURSIVE NeededAt(_)
NeededAt(i) == IF i <= 2 THEN needBlocksInit ELSE NeededAt(i - 1) - calls[i - 1].blockCount

\* C9 amended: every block an inner fetch covers has a gas-used ratio from
\* 0.1 to 0.9, ends included; only a ratio below 0.1 or above 0.9 ends a run.
C9_ClosedBand ==
  \A i \in InnerCalls :
    /\ \A b \in Covered(i) :
         /\ b \in 1..Len(result.GasUsedRatio)
         /\ result.GasUsedRatio[b] >= RatioLow
         /\ result.GasUsedRatio[b] <= RatioHigh
    /\ LET older == ParseHex(calls[i].newest) - result.OldestBlock + 1
                      - calls[i].blockCount
       IN (calls[i].blockCount < NeededAt(i) /\ older >= 1) =>
            (result.GasUsedRatio[older] < RatioLow
               \/ result.GasUsedRatio[older] > RatioHigh)

\* One inner fetch covered a block of ratio exactly 0.1 and one of exactly 0.9.
C9_Witness ==
  \E i \in InnerCalls : \E b, c \in Covered(i) :
    /\ result.GasUsedRatio[b] = RatioLow
    /\ result.GasUsedRatio[c] = RatioHigh

RECURSIVE FullBlockCount(_)
FullBlockCount(i) ==
  IF i < 2 THEN 0
  ELSE FullBlockCount(i - 1)
         + (IF calls[i].error = "nil" /\ calls[i].rows >= calls[i].blockCount
            THEN calls[i].blockCount ELSE 0)

\* C10: one outer fetch, made first; at most five inner fetches, each for
\* percentiles [10] and at least one block; the block counts of the inner
\* fetches answered in full sum to at most 5.
C10_FetchBudget ==
  /\ pc # "start" => Len(calls) >= 1
  /\ Len(calls) >= 1 =>
       /\ calls[1].blockCount = 100
       /\ calls[1].newest = <<"latest">>
       /\ calls[1].percentiles = <<>>
  /\ \A i \in InnerCalls :
       /\ calls[i].newest # <<"latest">>
       /\ calls[i].percentiles = <<10>>
       /\ calls[i].blockCount >= 1
  /\ Len(calls) - 1 <= 5
  /\ FullBlockCount(Len(calls)) <= 5

\* Five inner fetches were made after the outer one, each answered in full,
\* and a ladder was returned.
C10_Witness ==
  /\ LadderReturned
  /\ Len(calls) - 1 = 5
  /\ FullBlockCount(Len(calls)) = 5

\* Inner fetch i was answered without error by fewer rows than it asked for.
ShortReply(i) == calls[i].error = "nil" /\ calls[i].rows < calls[i].blockCount

\* The rewards the inner fetches up to i returned: the first entry of
\* every row, in the order of arrival.
RECURSIVE Returned(_)
Returned(i) ==
  IF i < 2 THEN <<>>
  ELSE Returned(i - 1) \o [k \in 1..calls[i].rows |-> calls[i].reward[k][1]]

\* s and t hold the same samples, each as often.
SameSamples(s, t) ==
  /\ Len(s) = Len(t)
  /\ \A k \in 1..Len(s) :
       Cardinality({j \in 1..Len(s) : s[j] = s[k]})
         = Cardinality({j \in 1..Len(t) : t[j] = s[k]})

\* C11: an inner fetch answered by fewer reward rows than the block count
\* it asked for is the last fetch; the tip then returned is the sample at
\* index floor(n/2) of exactly the n rewards returned by all fetches, the
\* short one included, or 5 gwei when there is none.
C11_ShortReplyEndsSampling ==
  \A i \in InnerCalls :
    ShortReply(i) =>
      /\ i = Len(calls)
      /\ pc \in {"tipEnd", "ladder", "returned", "panic"}
      /\ pc \in {"ladder", "returned"} =>
           LET all == Returned(Len(calls))
           IN /\ SameSamples(rewards, all)
              /\ IF all = <<>> THEN tip = 5
                 ELSE IsAtSortedIndex(all, tip, Len(all) \div 2)

\* A second inner fetch asked for two blocks or more and got one row; the
\* tip was taken over the rewards of both fetches.
C11_Witness ==
  /\ TipReturned
  /\ Len(calls) >= 3
  /\ ShortReply(Len(calls)) /\ calls[Len(calls)].rows >= 1
  /\ Len(rewards) > calls[Len(calls)].rows

\* The projector output for time factor t on the working array of the
\* invocation, and the entry emitted for t.
projected(t) == suggestBaseFee(baseFees, order, t)
entry(t) == response[t + 1]

\* C12 as stated: when the projected base fee at t = 15 is lower than at
\* t = 14, maxPriorityFeePerGas at t = 14 exceeds the tip by exactly 25% of
\* the difference of the two projections, maxFeePerGas at t = 14 is the
\* maxFeePerGas at t = 15 minus that tip delta, and maxFeePerGas is
\* non-increasing in t.
C12_DipAtMorePatient ==
  (LadderReturned /\ WellShaped(result) /\ projected(15) < projected(14)) =>
    LET delta == (projected(14) - projected(15)) \div ExtraTipDiv
    IN /\ entry(14).MaxPriorityFeePerGas = NewFloat(tip) + delta
       /\ entry(14).MaxFeePerGas = entry(15).MaxFeePerGas - delta
       /\ \A t \in Steps : response[t].MaxFeePerGas >= response[t + 1].MaxFeePerGas

\* C12 amended: when the projected base fee at t = 14 is lower than at
\* t = 15, maxPriorityFeePerGas at t = 14 exceeds that at t = 15 by exactly
\* 25% of the difference of the two projections, maxFeePerGas at t = 14 is
\* the maxFeePerGas at t = 15 plus that tip delta; when it is higher, no
\* tip is added at t = 14 and maxFeePerGas at t = 14 is the projection at
\* t = 14 plus the maxPriorityFeePerGas of t = 15.
C12_DipAtLessPatient ==
  (LadderReturned /\ WellShaped(result)) =>
    /\ projected(14) < projected(15) =>
         LET delta == (projected(15) - projected(14)) \div ExtraTipDiv
         IN /\ entry(14).MaxPriorityFeePerGas
                 = entry(15).MaxPriorityFeePerGas + delta
            /\ entry(14).MaxFeePerGas = entry(15).MaxFeePerGas + delta
    /\ projected(14) > projected(15) =>
         /\ entry(14).MaxPriorityFeePerGas = entry(15).MaxPriorityFeePerGas
         /\ entry(14).MaxFeePerGas
              = projected(14) + entry(15).MaxPriorityFeePerGas

\* A ladder of a valid history whose projection at t = 14 is below the one
\* at t = 15, with extra tip at t = 14.
C12_Witness ==
  /\ LadderReturned /\ WellShaped(result)
  /\ projected(14) < projected(15)
  /\ entry(14).MaxPriorityFeePerGas > entry(15).MaxPriorityFeePerGas

\* A ladder of a valid history whose projection at t = 15 is below the one
\* at t = 14.
C12_PatientLower ==
  /\ LadderReturned /\ WellShaped(result)
  /\ projected(15) < projected(14)

\* suggestBaseFee was applied on its own and has returned.
Projected == args.fn = "suggestBaseFee" /\ value # NoValue

\* C14: for every working array, every order and the time factor 0 the
\* projector returns the last entry of the array exactly, whatever the
\* order and the other entries are; with the last entry scaled by k the
\* projection for the time factor 0 is scaled by k.
C14_ProjectorDegenerate ==
  (Projected /\ args.timeFactor = 0) =>
    LET B == args.baseFee
        N == Len(B)
    IN /\ value[1] = B[N]
       /\ \A k \in 1..3 :
            suggestBaseFee([B EXCEPT ![N] = k * @], args.order, 0) = k * value[1]

\* The projector returned the last entry for the time factor 0 with an
\* empty order, on an array whose other entries differ from the last.
C14_Witness ==
  /\ Projected /\ args.timeFactor = 0
  /\ args.order = <<>>
  /\ Len(args.baseFee) = 3
  /\ args.baseFee[1] # args.baseFee[3] /\ args.baseFee[2] # args.baseFee[3]
  /\ value[1] = args.baseFee[3]

\* C15: the walk of the full-block propagation, run a second time on its
\* own result, leaves the working array as the first run left it.
C15_PropagationIdempotent ==
  (args.fn = "propagateFull" /\ Len(value) = 2) => value[2] = value[1]

\* The walk ran twice over two full blocks in a row: the first run carried
\* the last entry down to the first, which held another amount.
C15_Witness ==
  /\ args.fn = "propagateFull" /\ Len(value) = 2
  /\ Len(args.GasUsedRatio) = 2
  /\ args.GasUsedRatio[1] > RatioHigh /\ args.GasUsedRatio[2] > RatioHigh
  /\ args.baseFee[1] # args.baseFee[3] /\ args.baseFee[2] # args.baseFee[3]
  /\ value[1] = <<args.baseFee[3], args.baseFee[3], args.baseFee[3]>>

\* The working array has been built.
Prepared == pc \in {"tip", "tipEnd", "ladder", "returned"} /\ baseFees # <<>>

\* C16 as stated: no amount is narrowed.  Every entry of the working array
\* that the full-block walk left alone is the base fee of the source
\* exactly (the last one times 9/8), base fees beyond the mantissa and
\* beyond the word included, and the tip of the ladder is the tip the
\* estimator returned exactly.
C16_NoNarrowing ==
  /\ (Prepared /\ WellShaped(result)) =>
       \A i \in 1..Len(baseFees) :
         IF i = Len(baseFees)
         THEN baseFees[i] = (NewFloat(result.BaseFee[i]) * AugmentNum) \div AugmentDen
         ELSE result.GasUsedRatio[i] <= RatioHigh =>
                baseFees[i] = NewFloat(result.BaseFee[i])
  /\ (LadderReturned /\ WellShaped(result)) =>
       response[maxTimeFactor + 1].MaxPriorityFeePerGas = NewFloat(tip)

\* samplingCurve was applied on its own to both weights and has returned.
Sampled == args.fn = "samplingCurve" /\ value # NoValue

\* The sampling thresholds 0.1 and 0.3 and their midpoint, as weights.
OnRamp(w) == w > WeightScale \div 10 /\ w < (3 * WeightScale) \div 10

\* C17 as stated: the sampling curve is 0 up to 0.1 and 1 from 0.3 on, and
\* between them a ramp that rises monotonically from 0 to 1, with the
\* value 0.5 at 0.2.
C17_MonotoneRamp ==
  Sampled =>
    /\ args.lo <= WeightScale \div 10 => value[1] = 0
    /\ args.lo >= (3 * WeightScale) \div 10 => value[1] = CurveScale
    /\ OnRamp(args.lo) => (value[1] >= 0 /\ value[1] <= CurveScale)
    /\ (OnRamp(args.lo) /\ OnRamp(args.hi) /\ args.lo < args.hi) =>
         value[1] <= value[2]
    /\ args.lo = (2 * WeightScale) \div 10 => value[1] = CurveScale \div 2

\* M(t): the largest of 0 and the projections for the time factors t..15.
RECURSIVE maxProjected(_)
maxProjected(t) ==
  IF t > maxTimeFactor THEN 0
  ELSE LET rest == maxProjected(t + 1)
       IN IF projected(t) > rest THEN projected(t) ELSE rest

\* C18 as stated: for every t in 0..15, with raw(t) the projection and M(t)
\* the largest of raw(t..15) and 0, maxPriorityFeePerGas[t] is
\* tip + 0.25 * (M(t) - raw(t)) and maxFeePerGas[t] is
\* M(t) + maxPriorityFeePerGas[t]; M(t) is non-increasing in t,
\* maxPriorityFeePerGas[t] >= tip, and extra tip is added exactly at the t
\* whose projection is below the largest one of the more patient horizons.
C18_ClosedForm ==
  LadderReturned =>
    \A t \in 0..maxTimeFactor :
      LET M == maxProjected(t)
          raw == projected(t)
      IN /\ entry(t).MaxPriorityFeePerGas = NewFloat(tip) + (M - raw) \div ExtraTipDiv
         /\ entry(t).MaxFeePerGas = M + entry(t).MaxPriorityFeePerGas
         /\ M >= maxProjected(t + 1)
         /\ entry(t).MaxPriorityFeePerGas >= NewFloat(tip)
         /\ entry(t).MaxPriorityFeePerGas > NewFloat(tip)
              <=> raw < maxProjected(t + 1)

\* Every block of the history is full (gasUsedRatio 0.95).
AllFull(h) == \A i \in 1..Len(h.GasUsedRatio) : h.GasUsedRatio[i] = 95

\* C19 as stated: for a valid history with base fees F, the last entry of
\* the working array is 9/8 of the last of F; every earlier entry is its
\* successor in the working array when its block is full (ratio > 0.9) and
\* its own base fee of F otherwise.  When every ratio is 0.95 every entry
\* is 9/8 of the last of F, no inner fetch is made and the tip is 5 gwei.
C19_WorkingArray ==
  (Prepared /\ WellShaped(result)) =>
    LET F == result.BaseFee
        N == Len(F)
        pending == (NewFloat(F[N]) * AugmentNum) \div AugmentDen
    IN /\ baseFees[N] = pending
       /\ \A i \in 1..(N - 1) :
            baseFees[i] = IF result.GasUsedRatio[i] > RatioHigh
                          THEN baseFees[i + 1]
                          ELSE NewFloat(F[i])
       /\ AllFull(result) =>
            /\ \A i \in 1..N : baseFees[i] = pending
            /\ Len(calls) = 1
            /\ pc \in {"ladder", "returned"} => tip = 5

\* The k blocks that end at position ptr are a run of blocks in the band, no
\* longer than what is still needed.
runAt(k) ==
  /\ k <= needBlocks /\ k <= ptr + 1
  /\ \A j \in (ptr - k + 2)..(ptr + 1) :
       result.GasUsedRatio[j] >= RatioLow /\ result.GasUsedRatio[j] <= RatioHigh

\* runLen of the iteration that starts in this state.
runLen == CHOOSE k \in 0..needBlocks : runAt(k) /\ ~runAt(k + 1)

\* The walk is at the head of an iteration.
AtIteration == pc = "tip" /\ loopGuard

\* The step issues exactly one fetch, for runLen blocks of which the newest
\* is firstBlock + ptr.
OneFetch ==
  /\ Len(calls') = Len(calls) + 1
  /\ SubSeq(calls', 1, Len(calls)) = calls
  /\ calls'[Len(calls')].blockCount = runLen
  /\ ParseHex(calls'[Len(calls')].newest) = result.OldestBlock + ptr
  /\ ParseHex(calls'[Len(calls')].newest) - calls'[Len(calls')].blockCount + 1
       = result.OldestBlock + ptr - runLen + 1

\* The block numbers of inner fetch i.
newestOf(i) == ParseHex(calls[i].newest)
oldestOf(i) == ParseHex(calls[i].newest) - calls[i].blockCount + 1

\* Successive fetches cover disjoint ranges, each below the one before.
RangesDescend == \A i, j \in InnerCalls : i < j => newestOf(j) < oldestOf(i)

\* The loop of the tip estimator is left.
WalkEnds == (pc = "tip") ~> (pc # "tip")

\* C20 as stated: an iteration with runLen = 0 fetches nothing, takes 1
\* from ptr and leaves needed; an iteration with runLen > 0 issues one fetch
\* for the runLen blocks that end at firstBlock + ptr, and then takes
\* runLen + 1 from ptr and runLen from needed.  So ptr falls in every
\* iteration, the loop ends, and the fetches cover disjoint ranges from the
\* newest to the oldest.
C20_EveryIterationDescends ==
  /\ [][AtIteration =>
          /\ IF runLen = 0
             THEN calls' = calls /\ ptr' = ptr - 1 /\ needBlocks' = needBlocks
             ELSE /\ OneFetch
                  /\ ptr' = ptr - (runLen + 1)
                  /\ needBlocks' = needBlocks - runLen
          /\ ptr' < ptr]_vars
  /\ []RangesDescend
  /\ WalkEnds

\* C20 amended: as stated, but ptr and needed change after a fetch only when
\* it was answered without error by at least runLen rows, each holding a
\* reward; after any other answer the loop is left at once with ptr and
\* needed as they were.  ptr falls in every iteration after which the loop
\* goes on.
C20_BackwardWalk ==
  /\ [][AtIteration =>
          /\ IF runLen = 0
             THEN /\ calls' = calls /\ ptr' = ptr - 1 /\ needBlocks' = needBlocks
                  /\ pc' = "tip"
             ELSE /\ OneFetch
                  /\ IF /\ calls'[Len(calls')].error = "nil"
                        /\ calls'[Len(calls')].rows >= runLen
                        /\ pc' # "panic"
                     THEN /\ ptr' = ptr - (runLen + 1)
                          /\ needBlocks' = needBlocks - runLen
                          /\ pc' = "tip"
                     ELSE /\ ptr' = ptr /\ needBlocks' = needBlocks
                          /\ pc' \in {"tipEnd", "returned", "panic"}
          /\ pc' = "tip" => ptr' < ptr]_vars
  /\ []RangesDescend
  /\ WalkEnds

\* Two fetches with blocks stepped over between them, the second answered
\* short: the loop was left with ptr at the newest block of that fetch and
\* blocks still needed.
C20_Witness ==
  /\ pc = "tipEnd"
  /\ Len(calls) = 3
  /\ oldestOf(2) - newestOf(3) > 1
  /\ ShortReply(3)
  /\ newestOf(3) = result.OldestBlock + ptr
  /\ needBlocks = needBlocksInit - calls[2].blockCount

\* The order o sorts the working array B ascending.
IsSorting(o, B) ==
  /\ Len(o) = Len(B)
  /\ \A i \in 1..Len(o) : o[i] \in 1..Len(B)
  /\ \A i, j \in 1..Len(o) : i # j => o[i] # o[j]
  /\ \A i \in 1..(Len(o) - 1) : B[o[i]] <= B[o[i + 1]]

\* Along the sorted walk of the operands: the cumulative weight after i
\* entries, the sampling-curve value there, and the coefficient of entry i.
RECURSIVE walkWeight(_)
walkWeight(i) ==
  IF i = 0 THEN 0
  ELSE walkWeight(i - 1)
         + (pendingWeightOf(Len(args.baseFee), args.timeFactor)
              * ExpNeg(Len(args.baseFee) - args.order[i], args.timeFactor))
             \div WeightScale
walkCurve(i) == IF i = 0 THEN 0 ELSE samplingCurve(walkWeight(i))
coefficient(i) == walkCurve(i) - walkCurve(i - 1)

\* The first i coefficients summed, and the entries they weigh combined.
RECURSIVE coefficientSum(_)
coefficientSum(i) == IF i = 0 THEN 0 ELSE coefficientSum(i - 1) + coefficient(i)
RECURSIVE combination(_)
combination(i) ==
  IF i = 0 THEN 0
  ELSE combination(i - 1)
         + coefficient(i) * (args.baseFee[args.order[i]] \div CurveScale)

\* The cumulative weight reaches 0.3 at entry i and not before.
StopsAt(i) ==
  /\ walkWeight(i) >= (3 * WeightScale) \div 10
  /\ \A j \in 1..(i - 1) : walkWeight(j) < (3 * WeightScale) \div 10

\* The projector was applied to a working array of non-negative fees for a
\* time factor of at least 1 with an order that sorts the array.
SortedWalk ==
  /\ Projected /\ args.timeFactor >= 1
  /\ \A i \in 1..Len(args.baseFee) : args.baseFee[i] >= 0
  /\ IsSorting(args.order, args.baseFee)

\* C21: for every working array of non-negative fees, every order that
\* sorts it ascending and every time factor of at least 1, the cumulative
\* weight reaches 0.3 along the walk and the walk stops there; the result is
\* the combination of the entries walked, weighed by the successive
\* differences of the sampling-curve values; these coefficients sum to the
\* last curve value, which is exactly 1; and the result lies between the
\* least and the greatest entry, ends included.
C21_ProjectorCombination ==
  SortedWalk =>
    \E stop \in 1..Len(args.order) :
      /\ StopsAt(stop)
      /\ value[1] = combination(stop)
      /\ coefficientSum(stop) = walkCurve(stop)
      /\ coefficientSum(stop) = CurveScale
      /\ \E i \in 1..Len(args.baseFee) : args.baseFee[i] <= value[1]
      /\ \E i \in 1..Len(args.baseFee) : args.baseFee[i] >= value[1]

\* A sorted walk with a negative coefficient, whose result is strictly
\* between the least and the greatest entry.
C21_Witness ==
  /\ SortedWalk
  /\ \E stop \in 1..Len(args.order) :
       /\ StopsAt(stop)
       /\ \E i \in 1..stop : coefficient(i) < 0
  /\ \E i \in 1..Len(args.baseFee) : args.baseFee[i] < value[1]
  /\ \E i \in 1..Len(args.baseFee) : args.baseFee[i] > value[1]

\* The goroutine of slot g is inside the body of pingPeer, between Lock and
\* the deferred Unlock.
InBody(g) == goroutines[g].pc \in {"ping", "check", "close", "return"}

\* At most one goroutine is inside the body, and it holds the mutex.
MutualExclusion ==
  \A g, h \in 1..MaxGoroutines :
    /\ InBody(g) => keepAliveMutex
    /\ (g # h /\ InBody(g)) => ~InBody(h)

\* A goroutine about to close a peer holds a counter above the allowance.
ClosesAboveAllowance ==
  \A g \in 1..MaxGoroutines :
    goroutines[g].pc = "close" =>
      keepAliveFails[goroutines[g].peer] > maxAllowedPingFailures

\* From a successful ping, and from a keep-alive disconnect, to the return
\* of the goroutine the peer's counter is 0.
ResetHolds ==
  \A g \in 1..MaxGoroutines :
    (InBody(g) /\ (goroutines[g].res = "ok" \/ goroutines[g].closed)) =>
      keepAliveFails[goroutines[g].peer] = 0

\* A step decides to disconnect, or closes a connection, only with the
\* peer's counter above the allowance and the peer connected.
DisconnectStep ==
  \A g \in 1..MaxGoroutines :
    /\ (goroutines[g].pc = "check" /\ goroutines'[g].pc = "close") =>
         /\ keepAliveFails[goroutines[g].peer] > maxAllowedPingFailures
         /\ connectedness[goroutines[g].peer]
    /\ (/\ goroutines[g].pc = "close" /\ goroutines'[g].pc = "return"
        /\ connectedness[goroutines[g].peer]
        /\ ~connectedness'[goroutines[g].peer]) =>
         /\ keepAliveFails[goroutines[g].peer] > maxAllowedPingFailures
         /\ keepAliveFails'[goroutines[g].peer] = 0

\* The counter counts consecutive failures: it changes only by one more
\* failed or timed-out ping of that peer, or back to 0 by a successful ping
\* or a keep-alive disconnect of that peer.
CounterStep ==
  \A p \in PeerIDs :
    keepAliveFails'[p] # keepAliveFails[p] =>
      \E g \in 1..MaxGoroutines :
        /\ goroutines[g].peer = p /\ InBody(g)
        /\ \/ /\ goroutines[g].pc = "ping"
              /\ goroutines'[g].res \in {"error", "timeout"}
              /\ keepAliveFails'[p] = keepAliveFails[p] + 1
           \/ /\ goroutines[g].pc = "ping"
              /\ goroutines'[g].res = "ok"
              /\ keepAliveFails'[p] = 0
           \/ /\ goroutines[g].pc = "close"
              /\ goroutines'[g].closed
              /\ keepAliveFails'[p] = 0

\* C22: under any interleaving of the spawned pingPeer goroutines the
\* bodies execute one at a time under keepAliveMutex; keep-alive closes a
\* peer's connection only when the peer's counter of consecutive failed or
\* timed-out pings is greater than maxAllowedPingFailures and the peer is
\* connected; and the peer's counter is 0 right after a successful ping and
\* right after a keep-alive disconnect.
C22_KeepAlive ==
  /\ [](MutualExclusion /\ ClosesAboveAllowance /\ ResetHolds)
  /\ [][DisconnectStep /\ CounterStep]_vars

\* A goroutine has just disconnected a peer whose counter is back at 0,
\* while another goroutine for the same peer waits for the mutex.
C22_Witness ==
  \E g, h \in 1..MaxGoroutines :
    /\ g # h
    /\ goroutines[g].closed
    /\ ~connectedness[goroutines[g].peer]
    /\ keepAliveFails[goroutines[g].peer] = 0
    /\ goroutines[h].pc = "lock"
    /\ goroutines[h].peer = goroutines[g].peer

====
